---- MODULE Spec2Model ----
(***************************************************************************)
(* Model of src/table-script.tsx: the workforce dashboard component.       *)
(*                                                                         *)
(* State: the React state of Example (loading, tableData), the pending     *)
(* setTimeout callback, the injected source collection and the text of    *)
(* the last exported CSV.  Operations: the mount effect, loadData (the     *)
(* normalization pass) and the Export button's handleExport.               *)
(*                                                                         *)
(* Representation.  A JavaScript string is a sequence of one-character     *)
(* strings.  An optional value (a value that may be undefined) is a        *)
(* sequence of length 0 (undefined) or 1.  A JavaScript number is the      *)
(* record Num(v), v the value in units of 10^-FracDigits; NaN and          *)
(* undefined are records of the same shape, so that any two results can be *)
(* compared.                                                               *)
(***************************************************************************)
EXTENDS Integers, Sequences, FiniteSets, TLC

\* ------------------------------------------------------------------ bounds

\* Longest source collection drawn in Init.
MaxRecords == 2

\* Longest lastThreeMonthsIndividually sequence drawn in InitMetrics.
MaxMonths == 2

\* Decimal places a Num keeps; the numeric strings drawn carry no more.
FracDigits == 2

RECURSIVE Pow10(_)
Pow10(n) == IF n = 0 THEN 1 ELSE 10 * Pow10(n - 1)

Scale == Pow10(FracDigits)

\* ------------------------------------------------- optional values, numbers

None == <<>>
Some(x) == <<x>>

Undefined == [t |-> "undefined", v |-> 0]
NaN == [t |-> "NaN", v |-> 0]
Num(v) == [t |-> "number", v |-> v]

\* ---------------------------------------------------------------- parseFloat

Digits == {"0", "1", "2", "3", "4", "5", "6", "7", "8", "9"}

DigitVal(c) ==
  CASE c = "0" -> 0 [] c = "1" -> 1 [] c = "2" -> 2 [] c = "3" -> 3
    [] c = "4" -> 4 [] c = "5" -> 5 [] c = "6" -> 6 [] c = "7" -> 7
    [] c = "8" -> 8 [] c = "9" -> 9

WhiteSpace == {" ", "\t", "\n", "\r"}

\* First index >= i of s that holds no white space (Len(s) + 1 if none).
RECURSIVE SkipWhiteSpace(_, _)
SkipWhiteSpace(s, i) ==
  IF i <= Len(s) /\ s[i] \in WhiteSpace THEN SkipWhiteSpace(s, i + 1) ELSE i

\* First index >= i of s that holds no digit (Len(s) + 1 if none).
RECURSIVE DigitRunEnd(_, _)
DigitRunEnd(s, i) ==
  IF i <= Len(s) /\ s[i] \in Digits THEN DigitRunEnd(s, i + 1) ELSE i

\* The digits s[i..j-1] read as a natural number (0 for the empty run).
RECURSIVE DigitsValue(_, _, _)
DigitsValue(s, i, j) ==
  IF j <= i THEN 0 ELSE 10 * DigitsValue(s, i, j - 1) + DigitVal(s[j - 1])

\* The digits s[i..j-1] read as a fraction, in units of 10^-FracDigits.
RECURSIVE FractionValue(_, _, _, _)
FractionValue(s, i, j, place) ==
  IF i >= j \/ place = 0 THEN 0
  ELSE DigitVal(s[i]) * Pow10(place - 1) + FractionValue(s, i + 1, j, place - 1)

\* parseFloat: leading white space is skipped, then the longest prefix that
\* is a decimal literal (sign, digits, point, digits) is read; trailing text
\* is ignored; NaN when that prefix holds no digit.  The strings drawn hold
\* neither an exponent nor "Infinity".
parseFloat(s) ==
  LET start == SkipWhiteSpace(s, 1)
      neg == start <= Len(s) /\ s[start] = "-"
      signed == start <= Len(s) /\ s[start] \in {"-", "+"}
      i0 == IF signed THEN start + 1 ELSE start
      i1 == DigitRunEnd(s, i0)
      point == i1 <= Len(s) /\ s[i1] = "."
      f0 == i1 + 1
      f1 == IF point THEN DigitRunEnd(s, f0) ELSE f0
      nInt == i1 - i0
      nFrac == IF point THEN f1 - f0 ELSE 0
      mag == DigitsValue(s, i0, i1) * Scale
               + (IF point THEN FractionValue(s, f0, f1, FracDigits) ELSE 0)
  IN IF nInt + nFrac = 0 THEN NaN
     ELSE Num(IF neg THEN 0 - mag ELSE mag)

\* parseUtil, lines 27-28.
parseUtil(val) == IF val # None THEN parseFloat(val[1]) ELSE Undefined


\* ------------------------------------------------------------ source records

\* SourceDataType, as the component reads it.  status, jobType and month are
\* only ever compared for equality and stay TLA+ strings; names and numeric
\* strings are character sequences.
\*   SourceRecord: [employees, externals : optional PersonBlock]
\*   PersonBlock:  [status, jobType, firstname, lastname : optional string,
\*                  workforceUtilisation : optional UtilisationBlock]
\*   UtilisationBlock: [utilisationRateLastTwelveMonths,
\*                  utilisationRateYearToDate, monthlyCostDifference :
\*                  optional string, lastThreeMonthsIndividually : optional
\*                  sequence of [month, utilisationRate]]

\* opt?.field, for a field that is always set.
Get(opt, field) == IF opt = None THEN None ELSE Some(opt[1][field])

\* opt?.field, for a field that is itself optional.
GetOpt(opt, field) == IF opt = None THEN None ELSE opt[1][field]

\* a ?? b on optional values.
Nullish(a, b) == IF a # None THEN a ELSE b

\* Faulty filters: one that keeps every record, one that tests employees only.
isActiveAny(row) == TRUE
isActiveEmployeesOnly(row) == Get(row.employees, "status") = Some("active")

\* The filter callback, lines 55-57.
isActive(row) ==
  \/ Get(row.employees, "status") = Some("active")
  \/ Get(row.externals, "status") = Some("active")

\* Faulty choice: the block whose status is "active".
personDataByStatus(row) ==
  IF Get(row.employees, "status") = Some("active") THEN row.employees
  ELSE row.externals

\* const personData = row.employees ?? row.externals, line 60.
personData(row) == Nullish(row.employees, row.externals)

\* Array.prototype.find on lastThreeMonthsIndividually with the callback
\* m.month === month, line 33: the first entry from index i on that matches.
RECURSIVE findFrom(_, _, _)
findFrom(list, month, i) ==
  IF i > Len(list) THEN None
  ELSE IF list[i].month = month THEN Some(list[i])
  ELSE findFrom(list, month, i + 1)

\* Faulty lookup: the last matching entry.
RECURSIVE findLastFrom(_, _, _)
findLastFrom(list, month, i) ==
  IF i < 1 THEN None
  ELSE IF list[i].month = month THEN Some(list[i])
  ELSE findLastFrom(list, month, i - 1)

findLast(list, month) == findLastFrom(list, month, Len(list))

find(list, month) == findFrom(list, month, 1)

\* getMonthUtil, lines 31-35.
getMonthUtil(util, month) ==
  LET list == GetOpt(util, "lastThreeMonthsIndividually")
      entry == IF list = None THEN None ELSE find(list[1], month)
  IN parseUtil(Get(entry, "utilisationRate"))

ExternalPrefix == <<"E", "x", "t", "e", "r", "n", "a", "l", " ">>

\* The name template, lines 62-65, for a person block that is present.
personName(pd) ==
  (IF pd.jobType = "external" THEN ExternalPrefix ELSE <<>>)
    \o pd.firstname \o <<" ">> \o Nullish(pd.lastname, Some(<<>>))[1]

\* x ?? 0 on a parseUtil result, line 74: only undefined is replaced.
orZero(x) == IF x = Undefined THEN Num(0) ELSE x

\* Lines 61-75 of the map callback: the Row built from the chosen person
\* block pd, which is present.
rowOf(pd) ==
  LET util == GetOpt(pd, "workforceUtilisation")
  IN [person |-> personName(pd[1]),
      past12Months |-> parseUtil(GetOpt(util, "utilisationRateLastTwelveMonths")),
      y2d |-> parseUtil(GetOpt(util, "utilisationRateYearToDate")),
      may |-> getMonthUtil(util, "May"),
      june |-> getMonthUtil(util, "June"),
      july |-> getMonthUtil(util, "July"),
      netEarningsPrevMonth |->
        orZero(parseUtil(GetOpt(util, "monthlyCostDifference")))]

\* The map callback reads personData.firstname unguarded (line 65, the
\* branch taken when personData?.jobType is not "external"): a TypeError
\* when neither block is present.
throws(row) == personData(row) = None

\* Faulty callback: the prefix follows the key the block came from.
toRowPrefixByKey(row) ==
  LET pd == personData(row)
  IN [rowOf(pd) EXCEPT !.person =
        (IF row.employees = None THEN ExternalPrefix ELSE <<>>)
          \o pd[1].firstname \o <<" ">>
          \o Nullish(pd[1].lastname, Some(<<>>))[1]]

\* The map callback, lines 59-76, for a record it does not throw on.
toRow(row) == rowOf(personData(row))

Reverse(s) == [i \in 1..Len(s) |-> s[Len(s) + 1 - i]]

\* sourceData.filter(...), lines 54-58.
filtered(records) == SelectSeq(records, isActive)

\* Faulty pass: the rows come out in reverse order.
normalizeReversed(records) ==
  LET kept == Reverse(filtered(records))
  IN [i \in 1..Len(kept) |-> toRow(kept[i])]

\* sourceData.filter(...).map(...), lines 51-76.
normalize(records) ==
  LET kept == filtered(records)
  IN [i \in 1..Len(kept) |-> toRow(kept[i])]

\* ------------------------------------------------------------------ export

\* A CSV text is the sequence of its lines (joined by the newline "\r\n"),
\* a line the sequence of its fields (joined by the delimiter ","); the
\* empty text has no line.

DigitChar(d) ==
  CASE d = 0 -> "0" [] d = 1 -> "1" [] d = 2 -> "2" [] d = 3 -> "3"
    [] d = 4 -> "4" [] d = 5 -> "5" [] d = 6 -> "6" [] d = 7 -> "7"
    [] d = 8 -> "8" [] d = 9 -> "9"

RECURSIVE NatToString(_)
NatToString(n) ==
  IF n < 10 THEN <<DigitChar(n)>>
  ELSE NatToString(n \div 10) \o <<DigitChar(n % 10)>>

\* The fraction f (in units of 10^-places) as digits, trailing zeros dropped.
RECURSIVE FractionToString(_, _)
FractionToString(f, places) ==
  IF f = 0 \/ places = 0 THEN <<>>
  ELSE <<DigitChar(f \div Pow10(places - 1))>>
         \o FractionToString(f % Pow10(places - 1), places - 1)

\* Number.prototype.toString, for NaN and the decimals a Num holds.
numberToString(x) ==
  IF x = NaN THEN <<"N", "a", "N">>
  ELSE LET mag == IF x.v < 0 THEN 0 - x.v ELSE x.v
           frac == FractionToString(mag % Scale, FracDigits)
       IN (IF x.v < 0 THEN <<"-">> ELSE <<>>)
            \o NatToString(mag \div Scale)
            \o (IF frac = <<>> THEN <<>> ELSE <<".">> \o frac)

RECURSIVE escapeQuotes(_)
escapeQuotes(str) ==
  IF str = <<>> THEN <<>>
  ELSE (IF Head(str) = "\"" THEN <<"\"", "\"">> ELSE <<Head(str)>>)
         \o escapeQuotes(Tail(str))

\* Papa.unparse's field writer for a string, default configuration: quoted
\* when it holds the delimiter, a quote, a line break, or starts or ends
\* with a space; quotes inside are doubled.
safeString(str) ==
  LET needsQuotes ==
        \/ \E i \in 1..Len(str) : str[i] \in {",", "\"", "\n", "\r"}
        \/ Len(str) > 0 /\ (str[1] = " " \/ str[Len(str)] = " ")
  IN IF needsQuotes THEN <<"\"">> \o escapeQuotes(str) \o <<"\"">>
     ELSE escapeQuotes(str)

\* Papa.unparse's field writer for a numeric Row field: undefined is written
\* as the empty field, anything else as its toString().
safeNumber(x) ==
  IF x = Undefined THEN <<>> ELSE safeString(numberToString(x))

\* Object.keys of the object literal of lines 67-75, in its order.
RowKeys ==
  <<<<"p", "e", "r", "s", "o", "n">>,
    <<"p", "a", "s", "t", "1", "2", "M", "o", "n", "t", "h", "s">>,
    <<"y", "2", "d">>,
    <<"m", "a", "y">>,
    <<"j", "u", "n", "e">>,
    <<"j", "u", "l", "y">>,
    <<"n", "e", "t", "E", "a", "r", "n", "i", "n", "g", "s", "P", "r", "e", "v", "M", "o", "n", "t", "h">>>>

csvLine(row) ==
  <<safeString(row.person), safeNumber(row.past12Months), safeNumber(row.y2d),
    safeNumber(row.may), safeNumber(row.june), safeNumber(row.july),
    safeNumber(row.netEarningsPrevMonth)>>

\* Faulty writer: no header line.
unparseNoHeader(data) == [i \in 1..Len(data) |-> csvLine(data[i])]

\* Papa.unparse(data), line 39, for an array of Row objects: the columns are
\* the keys of data[0]; an empty array has no data[0] and serializes to the
\* empty text.
unparse(data) ==
  IF Len(data) = 0 THEN <<>>
  ELSE <<[k \in 1..Len(RowKeys) |-> safeString(RowKeys[k])]>>
         \o [i \in 1..Len(data) |-> csvLine(data[i])]

\* ------------------------------------------------------------------ inputs

SeqsUpTo(S, n) == UNION {[1..k -> S] : k \in 0..n}

Person(status, jobType, firstname, lastname, util) ==
  [status |-> status, jobType |-> jobType, firstname |-> firstname,
   lastname |-> lastname, workforceUtilisation |-> util]

Utilisation(last12, ytd, cost, months) ==
  [utilisationRateLastTwelveMonths |-> last12,
   utilisationRateYearToDate |-> ytd,
   monthlyCostDifference |-> cost,
   lastThreeMonthsIndividually |-> months]

MonthEntry(month, rate) == [month |-> month, utilisationRate |-> rate]

Ana == <<"A", "n", "a">>
Jo == <<"J", "o">>
Lin == <<"L", "i", "n">>
Roe == <<"R", "o", "e">>

FullUtil ==
  Utilisation(Some(<<"0", ".", "8">>), Some(<<"0", ".", "5">>),
              Some(<<"-", "1", "2", ".", "5">>),
              Some(<<MonthEntry("May", <<"0", ".", "3", "3">>),
                     MonthEntry("July", <<"1">>)>>))

BareUtil == Utilisation(Some(<<"0", ".", "4", "2">>), None, None, None)

\* The employees blocks of the roster inputs: every status and jobType, a
\* block without lastname and workforceUtilisation, and a block without
\* lastThreeMonthsIndividually.
EmployeesBlocks ==
  {Person(st, jt, Ana, Some(Lin), Some(FullUtil)) :
     st \in {"active", "inactive"}, jt \in {"internal", "external"}}
    \cup {Person("active", "external", Ana, None, None),
          Person("active", "internal", Ana, Some(Lin), Some(BareUtil))}

ExternalsBlocks ==
  {Person("active", jt, Jo, Some(Roe), Some(BareUtil)) :
     jt \in {"internal", "external"}}
    \cup {Person("inactive", "external", Jo, Some(Roe), Some(BareUtil))}

RosterRecords ==
  [employees : {None} \cup {Some(b) : b \in EmployeesBlocks},
   externals : {None} \cup {Some(b) : b \in ExternalsBlocks}]

\* Numeric strings of the metric inputs: decimals, text that is no number,
\* the empty string, a number followed by text.
Last12Strings == {None, Some(<<"0", ".", "8">>), Some(<<"a", "b", "c">>)}
YtdStrings == {None, Some(<<"1", "2", "%">>)}
CostStrings ==
  {None, Some(<<"-", "1", "2", ".", "5">>), Some(<<"a", "b", "c">>), Some(<<>>)}
RateStrings == {<<"0", ".", "5">>, <<"0", ".", "9">>, <<"n", "/", "a">>}
MonthNames == {"May", "may", "June", "July"}

MetricUtils ==
  {Utilisation(l, y, c, m) :
     l \in Last12Strings, y \in YtdStrings, c \in CostStrings,
     m \in {None} \cup
           {Some(q) : q \in SeqsUpTo({MonthEntry(mo, r) :
                                        mo \in MonthNames, r \in RateStrings},
                                     MaxMonths)}}

MetricRecords ==
  {[employees |-> Some(Person("active", "internal", Ana, None, Some(u))),
    externals |-> None] : u \in MetricUtils}

\* ------------------------------------------------------------ the component

VARIABLES
  sourceData,   \* the imported source collection (line 7), read-only
  loading,      \* useState(true), line 45
  tableData,    \* useState([]), line 46
  effectRan,    \* the mount effect of lines 49-82 has run
  timers,       \* pending setTimeout(loadData, 1000) callbacks, line 81
  saved,        \* the text of the last blob handed to saveAs, if any
  uncaught      \* loadData ended in an uncaught TypeError

vars == <<sourceData, loading, tableData, effectRan, timers, saved, uncaught>>

\* The first render of Example, lines 45-46, before any effect has run.
Mounted ==
  /\ loading = TRUE
  /\ tableData = <<>>
  /\ effectRan = FALSE
  /\ timers = 0
  /\ saved = None
  /\ uncaught = FALSE

Init == sourceData \in SeqsUpTo(RosterRecords, MaxRecords) /\ Mounted

InitMetrics == sourceData \in {<<r>> : r \in MetricRecords} /\ Mounted

\* useEffect(..., []), lines 49-82: runs once after the first render and
\* schedules loadData.
Effect ==
  /\ ~effectRan
  /\ effectRan' = TRUE
  /\ timers' = timers + 1
  /\ UNCHANGED <<sourceData, loading, tableData, saved, uncaught>>

\* loadData, lines 50-79, run by the timer.  A throw inside map leaves both
\* setState calls unreached.
LoadData ==
  /\ timers > 0
  /\ timers' = timers - 1
  /\ IF \E i \in 1..Len(filtered(sourceData)) : throws(filtered(sourceData)[i])
     THEN /\ uncaught' = TRUE
          /\ UNCHANGED <<loading, tableData>>
     ELSE /\ tableData' = normalize(sourceData)
          /\ loading' = FALSE
          /\ UNCHANGED uncaught
  /\ UNCHANGED <<sourceData, effectRan, saved>>

\* Faulty button: never disabled.
exportDisabledNever == FALSE

\* disabled={loading}, line 179.
exportDisabled == loading

\* handleExport, lines 38-42, from the button's onClick, line 169; a
\* disabled button dispatches no click.
HandleExport ==
  /\ ~exportDisabled
  /\ saved' = Some(unparse(tableData))
  /\ UNCHANGED <<sourceData, loading, tableData, effectRan, timers, uncaught>>

Next == Effect \/ LoadData \/ HandleExport

Spec == Init /\ [][Next]_vars

SpecMetrics == InitMetrics /\ [][Next]_vars

\* ------------------------------------------------------------------ claims

\* What the claims call an active record, and the block they expect a row
\* to be built from, stated on the record's fields.
ActiveRecord(r) ==
  \/ r.employees # None /\ r.employees[1].status = "active"
  \/ r.externals # None /\ r.externals[1].status = "active"

ExpectedBlock(r) == IF r.employees # None THEN r.employees ELSE r.externals

\* The indices of the active records of a collection, ascending.
RECURSIVE KeptFrom(_, _)
KeptFrom(records, i) ==
  IF i > Len(records) THEN <<>>
  ELSE (IF ActiveRecord(records[i]) THEN <<i>> ELSE <<>>)
         \o KeptFrom(records, i + 1)

Kept == KeptFrom(sourceData, 1)

Loaded == ~loading

\* C1: after the normalization pass the rows are as many as the records
\* whose employees or externals block has status "active"; a record with
\* both blocks absent or no active block produces no row.
C1_FilterIffActive ==
  Loaded =>
    /\ Len(tableData) =
         Cardinality({i \in 1..Len(sourceData) : ActiveRecord(sourceData[i])})
    /\ (\A i \in 1..Len(sourceData) : ~ActiveRecord(sourceData[i]))
         => tableData = <<>>

\* C1 witness: a pass over two records, one included only through its
\* externals block, the other dropped for having no block at all.
C1_Witness ==
  /\ Loaded
  /\ Len(sourceData) = 2
  /\ Len(tableData) = 1
  /\ \E i \in 1..2 :
       /\ sourceData[i].employees = None /\ sourceData[i].externals = None
       /\ LET o == sourceData[3 - i]
          IN /\ o.employees # None /\ o.employees[1].status = "inactive"
             /\ o.externals # None /\ o.externals[1].status = "active"

MetricUtil == sourceData[1].employees[1].workforceUtilisation[1]

\* C2 (as claimed): every row's netEarningsPrevMonth is a number, never
\* undefined or NaN: the parsed monthlyCostDifference when that parses, and
\* 0 when it is absent or cannot be parsed.
C2_NetEarningsIsNumber ==
  Loaded =>
    \A k \in 1..Len(tableData) :
      LET util == GetOpt(ExpectedBlock(sourceData[Kept[k]]), "workforceUtilisation")
          cost == GetOpt(util, "monthlyCostDifference")
          net == tableData[k].netEarningsPrevMonth
      IN /\ net.t = "number"
         /\ cost # None /\ parseFloat(cost[1]) # NaN => net = parseFloat(cost[1])
         /\ cost = None \/ parseFloat(cost[1]) = NaN => net = Num(0)

\* C3: every row is built from the employees block when employees is
\* present and from the externals block only when employees is absent,
\* whichever block's status was "active".
C3_EmployeesPreferred ==
  Loaded =>
    /\ Len(tableData) = Len(Kept)
    /\ \A k \in 1..Len(Kept) :
         tableData[k] = rowOf(ExpectedBlock(sourceData[Kept[k]]))

\* C3 witness: a record included only because externals is active, whose
\* row carries the inactive employees block's first name.
C3_Witness ==
  /\ Loaded
  /\ Len(sourceData) = 1
  /\ sourceData[1].employees # None
  /\ sourceData[1].employees[1].status = "inactive"
  /\ sourceData[1].employees[1].jobType = "internal"
  /\ sourceData[1].externals # None
  /\ sourceData[1].externals[1].status = "active"
  /\ Len(tableData) = 1
  /\ SubSeq(tableData[1].person, 1, 3) = Ana

OptionalMetrics == {"past12Months", "y2d", "may", "june", "july"}

\* The source string behind an optional metric field of the row of util.
MetricSource(util, field) ==
  LET list == GetOpt(util, "lastThreeMonthsIndividually")
      first(month) ==
        IF list = None
             \/ ~\E i \in 1..Len(list[1]) : list[1][i].month = month
        THEN None
        ELSE LET i == CHOOSE i \in 1..Len(list[1]) :
                        /\ list[1][i].month = month
                        /\ \A j \in 1..(i - 1) : list[1][j].month # month
             IN Some(list[1][i].utilisationRate)
  IN CASE field = "past12Months" -> GetOpt(util, "utilisationRateLastTwelveMonths")
       [] field = "y2d" -> GetOpt(util, "utilisationRateYearToDate")
       [] field = "may" -> first("May")
       [] field = "june" -> first("June")
       [] field = "july" -> first("July")

\* C4 (as claimed): an optional metric field is undefined when its source
\* string is absent and also when it is present but no parseable number.
C4_UnparseableIsUndefined ==
  Loaded =>
    \A k \in 1..Len(tableData) : \A f \in OptionalMetrics :
      LET util == GetOpt(ExpectedBlock(sourceData[Kept[k]]), "workforceUtilisation")
          src == MetricSource(util, f)
      IN src = None \/ parseFloat(src[1]) = NaN => tableData[k][f] = Undefined

\* C5: the normalization pass never raises: every record that passes the
\* filter has a person block to read, the pass ends with the rows set, and
\* a missing workforceUtilisation or lastThreeMonthsIndividually leaves the
\* fields read from it undefined (0 for netEarningsPrevMonth).
C5_NeverRaises ==
  /\ ~uncaught
  /\ effectRan /\ timers = 0 => Loaded
  /\ \A i \in 1..Len(sourceData) :
       ActiveRecord(sourceData[i]) => ExpectedBlock(sourceData[i]) # None
  /\ Loaded =>
       /\ Len(tableData) = Len(Kept)
       /\ \A k \in 1..Len(Kept) :
            LET util == GetOpt(ExpectedBlock(sourceData[Kept[k]]),
                               "workforceUtilisation")
            IN /\ util = None =>
                    /\ \A f \in OptionalMetrics : tableData[k][f] = Undefined
                    /\ tableData[k].netEarningsPrevMonth = Num(0)
               /\ GetOpt(util, "lastThreeMonthsIndividually") = None =>
                    \A f \in {"may", "june", "july"} : tableData[k][f] = Undefined

\* C5 witness: a finished pass whose row comes from a block without
\* workforceUtilisation.
C5_Witness ==
  /\ Loaded
  /\ Len(tableData) >= 1
  /\ ExpectedBlock(sourceData[Kept[1]])[1].workforceUtilisation = None
  /\ tableData[1].past12Months = Undefined

\* C6: the rows keep the input order, one row per included record: row k
\* is the row of the k-th active record, and there are as many rows as
\* active records.
C6_OrderPreserved ==
  Loaded =>
    /\ Len(tableData) = Len(Kept)
    /\ \A k \in 1..Len(Kept) : tableData[k] = toRow(sourceData[Kept[k]])

\* C6 witness: two included records with different rows.
C6_Witness ==
  /\ Loaded
  /\ Len(tableData) = 2
  /\ tableData[1] # tableData[2]
  /\ tableData[1] = toRow(sourceData[1])

\* C7: may, june and july are the parsed utilisationRate of the first entry
\* of lastThreeMonthsIndividually whose month is exactly "May", "June",
\* "July", and undefined when no entry matches.
C7_FirstMatchWins ==
  Loaded =>
    \A k \in 1..Len(tableData) :
      LET util == GetOpt(ExpectedBlock(sourceData[Kept[k]]), "workforceUtilisation")
      IN \A f \in {"may", "june", "july"} :
           LET src == MetricSource(util, f)
           IN tableData[k][f] =
                IF src = None THEN Undefined ELSE parseFloat(src[1])

\* C7 witness: two "May" entries, rates "0.5" then "0.9", resolve may to 0.5,
\* and there is no "June" entry.
C7_Witness ==
  /\ Loaded
  /\ Len(tableData) = 1
  /\ MetricUtil.lastThreeMonthsIndividually =
       Some(<<MonthEntry("May", <<"0", ".", "5">>),
              MonthEntry("May", <<"0", ".", "9">>)>>)
  /\ tableData[1].may = Num(Scale \div 2)
  /\ tableData[1].june = Undefined

\* C8: person is firstname, a space, then lastname or nothing, prefixed
\* with "External " exactly when the chosen block's jobType is "external",
\* whichever key the block came from.
C8_PersonString ==
  Loaded =>
    \A k \in 1..Len(tableData) :
      LET pd == ExpectedBlock(sourceData[Kept[k]])[1]
          plain == pd.firstname \o <<" ">>
                     \o (IF pd.lastname = None THEN <<>> ELSE pd.lastname[1])
      IN /\ tableData[k].person =
              IF pd.jobType = "external" THEN ExternalPrefix \o plain ELSE plain
         /\ pd.jobType = "external" <=>
              /\ Len(tableData[k].person) >= Len(ExternalPrefix)
              /\ SubSeq(tableData[k].person, 1, Len(ExternalPrefix)) = ExternalPrefix

\* C8 witness: an internal person held under the externals key (no prefix)
\* next to an external person held under the employees key without lastname
\* (prefix, trailing space).
C8_Witness ==
  /\ Loaded
  /\ Len(tableData) = 2
  /\ sourceData[1].employees = None
  /\ sourceData[1].externals[1].jobType = "internal"
  /\ tableData[1].person = Jo \o <<" ">> \o Roe
  /\ sourceData[2].employees # None
  /\ sourceData[2].employees[1].jobType = "external"
  /\ tableData[2].person = ExternalPrefix \o Ana \o <<" ">>

HeaderLine ==
  <<<<"p", "e", "r", "s", "o", "n">>,
    <<"p", "a", "s", "t", "1", "2", "M", "o", "n", "t", "h", "s">>,
    <<"y", "2", "d">>,
    <<"m", "a", "y">>,
    <<"j", "u", "n", "e">>,
    <<"j", "u", "l", "y">>,
    <<"n", "e", "t", "E", "a", "r", "n", "i", "n", "g", "s",
      "P", "r", "e", "v", "M", "o", "n", "t", "h">>>>

NumericColumns ==
  <<"past12Months", "y2d", "may", "june", "july", "netEarningsPrevMonth">>

\* The exported text is the header line followed by one line per row, in
\* row order, every undefined field empty.
HeaderThenRows(csv, rows) ==
  /\ Len(csv) = Len(rows) + 1
  /\ csv[1] = HeaderLine
  /\ \A i \in 1..Len(rows) :
       /\ Len(csv[i + 1]) = Len(HeaderLine)
       /\ csv[i + 1][1] \in {rows[i].person,
                             <<"\"">> \o rows[i].person \o <<"\"">>}
       /\ \A c \in 1..Len(NumericColumns) :
            /\ rows[i][NumericColumns[c]] = Undefined <=> csv[i + 1][c + 1] = <<>>
            /\ rows[i][NumericColumns[c]].t = "number" =>
                 parseFloat(csv[i + 1][c + 1]) = rows[i][NumericColumns[c]]

\* C9 (as claimed): every exported text, the one of the empty row sequence
\* included, starts with the header line and has one line per row.
C9_HeaderAlways == saved # None => HeaderThenRows(saved[1], tableData)

\* C9 (amended): the text exported for a non-empty row sequence is the
\* header line followed by one line per row in row order, undefined fields
\* empty; the text exported for the empty row sequence is empty.
C9_HeaderWhenRows ==
  saved # None =>
    IF tableData = <<>> THEN saved[1] = <<>>
    ELSE HeaderThenRows(saved[1], tableData)

\* C9 witness: an export of two rows, one of them with undefined fields.
C9_Witness ==
  /\ saved # None
  /\ Len(tableData) = 2
  /\ Len(saved[1]) = 3
  /\ tableData[1].may = Undefined
  /\ saved[1][2][4] = <<>>

\* C10: while loading is true the rows are empty and nothing has been
\* exported; loading only ever goes from true to false, and does so exactly
\* in the step that replaces the rows with the normalizer's output; every
\* export writes the serialization of that output.
C10_ExportAfterNormalize ==
  /\ [](loading => tableData = <<>> /\ saved = None /\ ~ENABLED HandleExport)
  /\ [][/\ loading' => loading
        /\ loading /\ ~loading' => tableData' = normalize(sourceData)
        /\ tableData' # tableData => loading /\ ~loading'
        /\ saved' # saved =>
             /\ ~loading
             /\ saved' = Some(unparse(normalize(sourceData)))]_vars

\* C10 witness: an export has happened, after a pass that produced rows.
C10_Witness ==
  /\ saved # None
  /\ ~loading
  /\ Len(tableData) >= 1
  /\ Len(saved[1]) = Len(tableData) + 1
====
